---------------------------- MODULE Spec2Model ----------------------------
(***************************************************************************)
(* A model of src/app.py, the Streamlit dashboard over the Gemini File     *)
(* Search API.  Three specifications share this module:                    *)
(*   SpecDrain   the pager draining of list_stores / list_store_documents  *)
(*   SpecUpload  the upload loop (temp file, upload call, poll, record)    *)
(*   Spec        the render pass of the script over the session state      *)
(* The remote service is the environment: every remote call either raises  *)
(* or returns a value drawn from a bounded set.                            *)
(***************************************************************************)
EXTENDS Integers, Sequences, FiniteSets, TLC

VARIABLES
    \* ---- pager draining (SpecDrain)
    d_resp,        \* what client....list(...) does: a response shape, or raises
    d_kind,        \* which helper was applied: "none", "stores", "documents"
    d_out,         \* what the helper returned to its caller
    \* ---- upload loop (SpecUpload)
    uploaded_files, \* the files handed to the loop (their names)
    u_pc,          \* position in the loop body
    u_idx,         \* index of the file being processed (1-based)
    temp_path,     \* the script variable temp_path (Unbound before first assignment)
    display_name,  \* the script variable display_name (Unbound before first assignment)
    mime_type,     \* the script variable mime_type
    operation,     \* the script variable operation (the import operation handle)
    results,       \* the results list of the loop
    fs,            \* temporary files that exist on disk (named by the file's index)
    created,       \* temporary files the loop has created so far
    u_exc,         \* the exception in flight ("none" when there is none)
    refetches,     \* client.operations.get calls issued for the current file
    needed,        \* status checks after which the current operation reports done
    \* ---- render pass (Spec)
    session,       \* st.session_state: a function from the keys present to their values
    pc,            \* position of the script in the render pass
    clicked,       \* the button the operator pressed to trigger this pass
    active_name,   \* local active_name (line 163)
    selected_store, \* local selected_store (line 170)
    store_name,    \* local store_name (line 203)
    selected_doc_names, \* local selected_doc_names (lines 253-263)
    del_results,   \* local results of the document deletion block
    ask_in,        \* the Ask tab's widget values read in this pass (None before)
    calls,         \* remote calls issued in this pass, in order, with their outcome
    lastDocList    \* the latest documents.list call: its parent and what the helper returned

drainVars   == <<d_resp, d_kind, d_out>>
uploadVars  == <<uploaded_files, u_pc, u_idx, temp_path, display_name, mime_type,
                 operation, results, fs, created, u_exc, refetches, needed>>
sessionVars == <<session, pc, clicked, active_name, selected_store, store_name,
                 selected_doc_names, del_results, ask_in, calls, lastDocList>>
vars        == <<drainVars, uploadVars, sessionVars>>

\* ------------------------------------------------------------------ bounds
MaxPages    == 3       \* pages a pager stub holds
MaxPageSize == 5       \* items on one page
MaxFiles    == 2       \* files handed to one upload
MaxPolls    == 3       \* status checks an operation that completes may need
MaxStores   == 2       \* stores one listing returns
MaxDocs     == 3       \* documents one listing returns
MaxQuestion == 3       \* characters of a question

\* ------------------------------------------------------------ Python values
None    == "None"
\* A script name is <<>> while unassigned and <<v>> once bound to v.
Unbound == <<>>
Bound(v) == <<v>>
ValueOf(b) == b[1]

\* ------------------------------------------------------- sequence helpers
Range(s) == { s[i] : i \in DOMAIN s }

\* ================================================================ pager
(* A listing response.  shape "pager": an object with .page; pages[1] is   *)
(* its current page, pages[i+1] the page of the pager that the i-th        *)
(* next_page() returns.  has_hnp: the object has a has_next_page attribute.*)
(* failOp/failAt: the failAt-th call of failOp raises ("none": nothing     *)
(* raises).  shape "attr": an object with .stores / .documents.  shape     *)
(* "list": a list or tuple.  shape "other": none of these.  shape "raise": *)
(* the list call itself raises.                                            *)

\* hasattr(pager, "has_next_page") and pager.has_next_page(), at the pager
\* reached after i-1 advances; "raise" when has_next_page() raises.
has_next_page(resp, i) ==
    IF ~resp.has_hnp THEN "no"
    ELSE IF resp.failOp = "has_next_page" /\ resp.failAt = i THEN "raise"
    ELSE IF i < Len(resp.pages) THEN "yes" ELSE "no"

\* pager.next_page() at the pager reached after i-1 advances.
next_page_raises(resp, i) == resp.failOp = "next_page" /\ resp.failAt = i

\* What the inner "except Exception: pass" leaves in the accumulator.
AdvanceFailed_drop(acc) == <<>>
AdvanceFailed(acc) == acc

\* The while loop of lines 91-93 / 113-115, inside the inner try.
RECURSIVE DrainLoop(_, _, _)
DrainLoop(resp, i, acc) ==
    LET h == has_next_page(resp, i) IN
    IF h = "raise" THEN AdvanceFailed(acc)
    ELSE IF h = "no" THEN acc
    ELSE IF next_page_raises(resp, i) THEN AdvanceFailed(acc)
    ELSE DrainLoop(resp, i + 1, acc \o resp.pages[i + 1])

\* list_stores(client): items is the returned list, error whether
\* st.sidebar.error was shown, raised whether an exception left the helper.
list_stores(resp) ==
    IF resp.shape = "raise" THEN [items |-> <<>>, error |-> TRUE, raised |-> FALSE]
    ELSE IF resp.shape = "pager"
         THEN [items |-> DrainLoop(resp, 1, resp.pages[1]), error |-> FALSE, raised |-> FALSE]
    ELSE IF resp.shape = "attr" /\ resp.attr = "stores"
         THEN [items |-> resp.items, error |-> FALSE, raised |-> FALSE]
    ELSE IF resp.shape = "list"
         THEN [items |-> resp.items, error |-> FALSE, raised |-> FALSE]
    ELSE [items |-> <<>>, error |-> FALSE, raised |-> FALSE]

\* list_store_documents(client, store_name)
list_store_documents(resp) ==
    IF resp.shape = "raise" THEN [items |-> <<>>, error |-> TRUE, raised |-> FALSE]
    ELSE IF resp.shape = "pager"
         THEN [items |-> DrainLoop(resp, 1, resp.pages[1]), error |-> FALSE, raised |-> FALSE]
    ELSE IF resp.shape = "attr" /\ resp.attr = "documents"
         THEN [items |-> resp.items, error |-> FALSE, raised |-> FALSE]
    ELSE IF resp.shape = "list"
         THEN [items |-> resp.items, error |-> FALSE, raised |-> FALSE]
    ELSE [items |-> <<>>, error |-> FALSE, raised |-> FALSE]

\* ---- the inputs of SpecDrain: pager stubs over the items 1, 2, 3, ...
RECURSIVE SumTo(_, _)
SumTo(sizes, k) == IF k = 0 THEN 0 ELSE sizes[k] + SumTo(sizes, k - 1)

\* The pages of sizes[1], sizes[2], ... items, numbered in page order.
PagesOf(sizes) ==
    [p \in DOMAIN sizes |-> [j \in 1..sizes[p] |-> SumTo(sizes, p - 1) + j]]

PageSizes == UNION { [1..n -> 0..MaxPageSize] : n \in 1..MaxPages }

Pager(pages, hnp, op, at) ==
    [shape |-> "pager", pages |-> pages, has_hnp |-> hnp, failOp |-> op, failAt |-> at]

PagerStubs ==
    { Pager(PagesOf(sz), hnp, op, at) :
        sz \in PageSizes, hnp \in BOOLEAN,
        op \in {"none", "has_next_page", "next_page"}, at \in 1..MaxPages }

Plain(shape, attr, items) == [shape |-> shape, attr |-> attr, items |-> items]

PlainStubs ==
    { Plain(sh, a, [j \in 1..n |-> j]) :
        sh \in {"attr", "list"}, a \in {"stores", "documents"}, n \in 0..MaxPageSize }
    \cup { [shape |-> "other"], [shape |-> "raise"] }

ParkedDrain ==
    /\ d_resp = [shape |-> "other"]
    /\ d_kind = "none"
    /\ d_out = None

ParkedUpload ==
    /\ uploaded_files = <<>>
    /\ u_pc = "parked"
    /\ u_idx = 0
    /\ temp_path = Unbound
    /\ display_name = Unbound
    /\ mime_type = Unbound
    /\ operation = Unbound
    /\ results = <<>>
    /\ fs = {}
    /\ created = {}
    /\ u_exc = "none"
    /\ refetches = 0
    /\ needed = 0

ParkedSession ==
    /\ session = <<>>
    /\ pc = "parked"
    /\ clicked = "none"
    /\ active_name = ""
    /\ selected_store = Unbound
    /\ store_name = None
    /\ selected_doc_names = <<>>
    /\ del_results = <<>>
    /\ ask_in = Unbound
    /\ calls = <<>>
    /\ lastDocList = Unbound

InitDrain ==
    /\ d_resp \in PagerStubs \cup PlainStubs
    /\ d_kind = "none"
    /\ d_out = None
    /\ ParkedUpload
    /\ ParkedSession

CallListStores ==
    /\ d_kind = "none"
    /\ d_kind' = "stores"
    /\ d_out' = list_stores(d_resp)
    /\ UNCHANGED <<d_resp, uploadVars, sessionVars>>

CallListStoreDocuments ==
    /\ d_kind = "none"
    /\ d_kind' = "documents"
    /\ d_out' = list_store_documents(d_resp)
    /\ UNCHANGED <<d_resp, uploadVars, sessionVars>>

NextDrain == CallListStores \/ CallListStoreDocuments

SpecDrain == InitDrain /\ [][NextDrain]_vars

\* ================================================================ upload
\* ---- file names are tuples of one-character strings
FileNames ==
    { <<"a", ".", "m", "d">>,        \* a.md
      <<"b">>,                       \* b
      <<".", "r", "c">>,             \* .rc
      <<"c", ".", "d", ".", "e">>,   \* c.d.e
      <<"A", ".", "M", "D">> }       \* A.MD

\* str.rfind(ch), 1-based; 0 when ch does not occur.
RFind(p, ch) ==
    LET hits == { i \in DOMAIN p : p[i] = ch }
    IN  IF hits = {} THEN 0 ELSE CHOOSE i \in hits : \A j \in hits : j <= i

\* os.path.splitext(p): <<root, ext>>.  The extension starts at the last
\* dot that follows the last separator, unless only dots precede it.
splitext(p) ==
    LET sepIndex == RFind(p, "/")
        dotIndex == RFind(p, ".")
    IN  IF dotIndex > sepIndex
           /\ \E k \in (sepIndex + 1)..(dotIndex - 1) : p[k] # "."
        THEN <<SubSeq(p, 1, dotIndex - 1), SubSeq(p, dotIndex, Len(p))>>
        ELSE <<p, <<>>>>

\* str.lower() on the characters the names use.
LowerChar(c) ==
    CASE c = "A" -> "a" [] c = "M" -> "m" [] c = "D" -> "d" [] OTHER -> c

lower(p) == [i \in DOMAIN p |-> LowerChar(p[i])]

\* The override table `common` of guess_mime.
common(ext) ==
    CASE ext = <<".", "m", "d">>           -> "text/markdown"
      [] ext = <<".", "t", "x", "t">>      -> "text/plain"
      [] ext = <<".", "c", "s", "v">>      -> "text/csv"
      [] ext = <<".", "j", "s", "o", "n">> -> "application/json"
      [] ext = <<".", "p", "d", "f">>      -> "application/pdf"
      [] ext = <<".", "h", "t", "m", "l">> -> "text/html"
      [] ext = <<".", "x", "m", "l">>      -> "application/xml"
      [] OTHER                             -> None

\* guess_mime(filename); platform is what mimetypes.guess_type(filename)
\* answers on the host: a type, or None.
guess_mime(filename, platform) ==
    LET mime == IF platform = None THEN common(lower(splitext(filename)[2]))
                ELSE platform
    IN  IF mime = None THEN "application/octet-stream" ELSE mime

PlatformTypes == {None, "text/x-host"}

\* getattr(operation, "done", False): the condition that ends the poll loop;
\* n is the number of re-fetches made so far.
LoopExits_capped(op, n) == ValueOf(op).done \/ n >= 2
LoopExits(op, n) == ValueOf(op).done

\* What the finally clause removes: os.remove(temp_path), where temp_path is
\* whatever the script variable holds (NameError and a missing file are
\* swallowed by the inner except).
Removed(path) == IF path = Unbound THEN {} ELSE {ValueOf(path)}

Never == -1    \* the operation never reports done

CurrentFile == uploaded_files[u_idx]

InitUpload ==
    /\ uploaded_files \in UNION { [1..n -> FileNames] : n \in 0..MaxFiles }
    /\ u_pc = "clicked"
    /\ u_idx = 0
    /\ temp_path = Unbound
    /\ display_name = Unbound
    /\ mime_type = Unbound
    /\ operation = Unbound
    /\ results = <<>>
    /\ fs = {}
    /\ created = {}
    /\ u_exc = "none"
    /\ refetches = 0
    /\ needed = 0
    /\ ParkedDrain
    /\ ParkedSession

UploadFrame == UNCHANGED <<drainVars, sessionVars, uploaded_files>>

\* lines 300-304: "if upload_clicked: if not uploaded_files: warning; else: results = []"
UploadClicked ==
    /\ u_pc = "clicked"
    /\ u_pc' = IF uploaded_files = <<>> THEN "done" ELSE "for"
    /\ UNCHANGED <<u_idx, temp_path, display_name, mime_type, operation, results,
                   fs, created, u_exc, refetches, needed>>
    /\ UploadFrame

\* line 305: "for f in uploaded_files"
ForNext ==
    /\ u_pc = "for"
    /\ IF u_idx < Len(uploaded_files)
          THEN u_idx' = u_idx + 1 /\ u_pc' = "tmpfile"
          ELSE u_idx' = u_idx /\ u_pc' = "table"
    /\ UNCHANGED <<temp_path, display_name, mime_type, operation, results,
                   fs, created, u_exc, refetches, needed>>
    /\ UploadFrame

\* lines 308-310: NamedTemporaryFile(delete=False) raises and no file exists
TempFileOpenFails ==
    /\ u_pc = "tmpfile"
    /\ u_exc' = "OSError"
    /\ u_pc' = "except"
    /\ UNCHANGED <<u_idx, temp_path, display_name, mime_type, operation, results,
                   fs, created, refetches, needed>>
    /\ UploadFrame

\* lines 308-310: the file is created, tmp.write raises; the with block
\* closes the file (delete=False keeps it) before temp_path is assigned
TempFileWriteFails ==
    /\ u_pc = "tmpfile"
    /\ fs' = fs \cup {u_idx}
    /\ created' = created \cup {u_idx}
    /\ u_exc' = "OSError"
    /\ u_pc' = "except"
    /\ UNCHANGED <<u_idx, temp_path, display_name, mime_type, operation, results,
                   refetches, needed>>
    /\ UploadFrame

\* lines 308-310: the file is created and written, temp_path = tmp.name
TempFileWritten ==
    /\ u_pc = "tmpfile"
    /\ fs' = fs \cup {u_idx}
    /\ created' = created \cup {u_idx}
    /\ temp_path' = Bound(u_idx)
    /\ u_pc' = "names"
    /\ UNCHANGED <<u_idx, display_name, mime_type, operation, results,
                   u_exc, refetches, needed>>
    /\ UploadFrame

\* lines 312-314
DeriveNames ==
    /\ u_pc = "names"
    /\ display_name' = Bound(splitext(CurrentFile)[1])
    /\ \E platform \in PlatformTypes : mime_type' = Bound(guess_mime(CurrentFile, platform))
    /\ u_pc' = "upload"
    /\ UNCHANGED <<u_idx, temp_path, operation, results, fs, created, u_exc,
                   refetches, needed>>
    /\ UploadFrame

\* lines 317-321: upload_to_file_search_store raises
UploadCallFails ==
    /\ u_pc = "upload"
    /\ u_exc' = "UploadError"
    /\ u_pc' = "except"
    /\ UNCHANGED <<u_idx, temp_path, display_name, mime_type, operation, results,
                   fs, created, refetches, needed>>
    /\ UploadFrame

\* lines 317-321: upload_to_file_search_store returns an operation handle,
\* which reports done after k status checks (k = 0: done at once) or never
UploadCallReturns ==
    /\ u_pc = "upload"
    /\ \E k \in (0..MaxPolls) \cup {Never} :
          /\ needed' = k
          /\ operation' = Bound([done |-> (k = 0)])
    /\ refetches' = 0
    /\ u_pc' = "poll"
    /\ UNCHANGED <<u_idx, temp_path, display_name, mime_type, results,
                   fs, created, u_exc>>
    /\ UploadFrame

\* line 325: the while condition is false, the loop is left
PollExit ==
    /\ u_pc = "poll"
    /\ LoopExits(operation, refetches)
    /\ u_pc' = "append"
    /\ UNCHANGED <<u_idx, temp_path, display_name, mime_type, operation, results,
                   fs, created, u_exc, refetches, needed>>
    /\ UploadFrame

\* lines 326-327: sleep, then client.operations.get returns the new status
\* (the count of re-fetches stops growing past MaxPolls + 1)
PollRefetch ==
    /\ u_pc = "poll"
    /\ ~LoopExits(operation, refetches)
    /\ refetches' = IF refetches > MaxPolls THEN refetches ELSE refetches + 1
    /\ operation' = Bound([done |-> (needed # Never /\ refetches + 1 >= needed)])
    /\ UNCHANGED <<u_pc, u_idx, temp_path, display_name, mime_type, results,
                   fs, created, u_exc, needed>>
    /\ UploadFrame

\* lines 326-327: client.operations.get raises
PollRefetchFails ==
    /\ u_pc = "poll"
    /\ ~LoopExits(operation, refetches)
    /\ u_exc' = "PollError"
    /\ u_pc' = "except"
    /\ UNCHANGED <<u_idx, temp_path, display_name, mime_type, operation, results,
                   fs, created, refetches, needed>>
    /\ UploadFrame

\* line 329
AppendSuccess ==
    /\ u_pc = "append"
    /\ results' = Append(results, [file |-> CurrentFile, display_name |-> ValueOf(display_name),
                                   mime_type |-> ValueOf(mime_type), status |-> <<"success">>])
    /\ u_pc' = "finally"
    /\ UNCHANGED <<u_idx, temp_path, display_name, mime_type, operation,
                   fs, created, u_exc, refetches, needed>>
    /\ UploadFrame

\* line 333: the handler reads display_name; when the name is still unbound
\* the read raises NameError, which leaves the handler
ExceptHandler ==
    /\ u_pc = "except"
    /\ IF display_name = Unbound
          THEN /\ u_exc' = "NameError"
               /\ results' = results
          ELSE /\ u_exc' = "none"
               /\ results' = Append(results, [file |-> CurrentFile,
                                              display_name |-> ValueOf(display_name),
                                              status |-> <<"error", u_exc>>])
    /\ u_pc' = "finally"
    /\ UNCHANGED <<u_idx, temp_path, display_name, mime_type, operation,
                   fs, created, refetches, needed>>
    /\ UploadFrame

\* lines 336-340; an exception still in flight then leaves the loop and the script
Finally ==
    /\ u_pc = "finally"
    /\ fs' = fs \ Removed(temp_path)
    /\ u_pc' = IF u_exc = "none" THEN "for" ELSE "crashed"
    /\ UNCHANGED <<u_idx, temp_path, display_name, mime_type, operation, results,
                   created, u_exc, refetches, needed>>
    /\ UploadFrame

\* lines 343-344
ShowTable ==
    /\ u_pc = "table"
    /\ u_pc' = "done"
    /\ UNCHANGED <<u_idx, temp_path, display_name, mime_type, operation, results,
                   fs, created, u_exc, refetches, needed>>
    /\ UploadFrame

NextUpload ==
    \/ UploadClicked \/ ForNext
    \/ TempFileOpenFails \/ TempFileWriteFails \/ TempFileWritten
    \/ DeriveNames
    \/ UploadCallFails \/ UploadCallReturns
    \/ PollExit \/ PollRefetch \/ PollRefetchFails
    \/ AppendSuccess \/ ExceptHandler \/ Finally \/ ShowTable

SpecUpload == InitUpload /\ [][NextUpload]_vars

\* The iterations that have finished: every file before the current one,
\* and the current one once control is back at the loop head or past the loop.
FinishedIterations ==
    { i \in 1..u_idx : i < u_idx \/ u_pc \in {"for", "table", "done", "crashed"} }

LoopOver == u_pc \in {"done", "crashed"}

\* ---------------------------------------------------------------- C1
\* C1: once a file's iteration has finished, the temporary file created for
\* it no longer exists, whatever path the iteration took.
C1_TempFileRemoved ==
    \A i \in FinishedIterations : i \in created => i \notin fs

\* ---------------------------------------------------------------- C2
\* C2: when the upload loop is over, results holds one record per input
\* file, the i-th for the i-th file, each marked success or error.
C2_OneRecordPerFile ==
    LoopOver =>
        /\ Len(results) = Len(uploaded_files)
        /\ \A i \in DOMAIN results :
              /\ results[i].file = uploaded_files[i]
              /\ results[i].status[1] \in {"success", "error"}

\* ---------------------------------------------------------------- C3
\* name = root \o ext where ext is the extension of name: empty when every
\* dot of name has only dots before it, else the part from the last dot on,
\* that dot having a character other than a dot somewhere before it.
IsNameWithoutExtension(root, name) ==
    /\ Len(root) <= Len(name)
    /\ SubSeq(name, 1, Len(root)) = root
    /\ LET ext == SubSeq(name, Len(root) + 1, Len(name))
       IN  IF \E p \in DOMAIN name : name[p] = "." /\ \E q \in 1..(p - 1) : name[q] # "."
           THEN /\ ext # <<>>
                /\ ext[1] = "."
                /\ \A j \in 2..Len(ext) : ext[j] # "."
           ELSE ext = <<>>

\* C3: the poll loop is left normally only on an operation observed done,
\* after exactly as many re-fetches as the operation needs status checks
\* (never, for an operation that never reports done: no timeout, no retry
\* cap); a success record is appended only then, and its display_name is
\* the file name without its extension.
C3_PollUntilDone ==
    /\ u_pc = "append" =>
          /\ ValueOf(operation).done
          /\ needed # Never
          /\ refetches = needed
    /\ (u_pc = "finally" /\ u_exc = "none" /\ results[Len(results)].status = <<"success">>) =>
          /\ ValueOf(operation).done
          /\ refetches = needed
          /\ results[Len(results)].file = CurrentFile
    /\ \A i \in DOMAIN results :
          results[i].status = <<"success">> =>
              IsNameWithoutExtension(results[i].display_name, results[i].file)

\* An operation that reported done at the third status check: three
\* re-fetches were made and the success record of c.d.e is named c.d.
C3_Witness ==
    /\ u_pc = "finally"
    /\ needed = 3
    /\ refetches = 3
    /\ results # <<>>
    /\ results[Len(results)].status = <<"success">>
    /\ results[Len(results)].file = <<"c", ".", "d", ".", "e">>
    /\ results[Len(results)].display_name = <<"c", ".", "d">>

\* ================================================================ render pass
\* ---- st.session_state
Get(ss, k, default) == IF k \in DOMAIN ss THEN ss[k] ELSE default
Put(ss, k, v) == [x \in (DOMAIN ss) \cup {k} |-> IF x = k THEN v ELSE ss[x]]
Pop(ss, ks) == [x \in (DOMAIN ss) \ ks |-> ss[x]]

\* ---- what the remote service holds
\* A store as the SDK returns it; the first one carries no resource name.
StorePool ==
    { [name |-> "", display_name |-> "unnamed"],
      [name |-> "s1", display_name |-> "one"],
      [name |-> "s2", display_name |-> "two"] }

\* A document of store st; id 0 is a document object without a name.
Doc(st, id) ==
    [store |-> st, name |-> IF id = 0 THEN <<>> ELSE <<st, id>>, display_name |-> id]

DocPool(st) == { Doc(st, id) : id \in 0..(MaxDocs - 1) }

\* The sequences over S without repetition, of at most n elements.
DistinctSeqs(S, n) ==
    { q \in UNION { [1..k -> S] : k \in 0..n } :
        \A i, j \in DOMAIN q : i # j => q[i] # q[j] }

\* The strictly increasing sequences over a set of documents ordered by id.
OrderedDocSeqs(st) ==
    { q \in DistinctSeqs(DocPool(st), MaxDocs) :
        \A i, j \in DOMAIN q : i < j => q[i].display_name < q[j].display_name }

\* One item per page.
SinglePages(items) ==
    IF items = <<>> THEN << <<>> >> ELSE [i \in DOMAIN items |-> <<items[i]>>]

\* What a list call may do with the items the service holds: raise, answer
\* a plain list, or answer a pager of one-item pages whose first advance
\* may raise.
ListResponses(items) ==
    { [shape |-> "raise"], Plain("list", "any", items),
      Pager(SinglePages(items), TRUE, "none", 1),
      Pager(SinglePages(items), TRUE, "next_page", 1) }

StoreListResponses ==
    UNION { ListResponses(items) : items \in DistinctSeqs(StorePool, MaxStores) }

DocListResponses(parent) ==
    UNION { ListResponses(items) : items \in OrderedDocSeqs(parent) }

\* ---- the log of remote calls
Call(op, arg, ok, result) == [op |-> op, arg |-> arg, ok |-> ok, result |-> result]

\* ---- lines 163-180, store activation
\* line 175: "if sel_name and sel_name != active_name"
ShouldActivate_always(sel_name, active) == sel_name # ""
ShouldActivate(sel_name, active) == sel_name # "" /\ sel_name # active

\* line 178: the store whose documents the activation lists
ActivationParent_stale(sel_name, active) == active
ActivationParent(sel_name, active) == sel_name

\* ensure_store_in_state(store)
ensure_store_in_state(ss, store) ==
    Put(Put(ss, "file_search_store", store), "file_search_store_name", store.name)

\* ---- lines 183-199, store deletion
\* line 194: the keys popped when the deleted store is the active one
ClearedKeys_partial == {"file_search_store", "file_search_store_name"}
ClearedKeys ==
    {"file_search_store", "file_search_store_name", "store_documents", "_store_docs_for"}

\* lines 198-199: whether the store list is re-fetched after the remote
\* delete was attempted (the statement follows the try, inside the else)
RefreshAfterDelete_onSuccess(deleted) == deleted
RefreshAfterDelete(deleted) == TRUE

\* ---- lines 269-276, the batch delete loop
\* what is left to delete after an item's delete raised
AfterDeleteError_abort(rest) == <<>>
AfterDeleteError(rest) == rest

\* The loop over selected_doc_names with outcomes[i] saying whether the
\* i-th remote delete succeeds: the calls made and the results collected.
RECURSIVE DeleteLoop(_, _, _)
DeleteLoop(names, outcomes, acc) ==
    IF names = <<>> THEN acc
    ELSE LET doc_name == Head(names)
             ok == Head(outcomes)
             call == Call("documents.delete", [name |-> doc_name, force |-> TRUE], ok, None)
             rec == [document |-> doc_name,
                     status |-> IF ok THEN <<"deleted">> ELSE <<"error", "DeleteError">>]
             acc2 == [calls |-> Append(acc.calls, call), results |-> Append(acc.results, rec)]
         IN  DeleteLoop(IF ok THEN Tail(names) ELSE AfterDeleteError(Tail(names)),
                        Tail(outcomes), acc2)

\* lines 245-247: options_keys, the names of the listed documents that have one
RECURSIVE options_keys(_)
options_keys(docs) ==
    IF docs = <<>> THEN <<>>
    ELSE IF Head(docs).name # <<>> THEN <<Head(docs).name>> \o options_keys(Tail(docs))
    ELSE options_keys(Tail(docs))

\* ---- lines 358-389, the ask handler
QuestionChars == {" ", "q"}
Questions == UNION { [1..n -> QuestionChars] : n \in 0..MaxQuestion }

\* str.strip() for the blank character
RECURSIVE lstrip(_)
lstrip(q) == IF q # <<>> /\ Head(q) = " " THEN lstrip(Tail(q)) ELSE q

RECURSIVE rstrip(_)
rstrip(q) == IF q # <<>> /\ q[Len(q)] = " " THEN rstrip(SubSeq(q, 1, Len(q) - 1)) ELSE q

strip(q) == rstrip(lstrip(q))

\* line 358: "if ask and question.strip()"
ShouldAsk_unstripped(ask, question) == ask /\ question # <<>>
ShouldAsk(ask, question) == ask /\ strip(question) # <<>>

\* lines 365-373: the fixed text of the system prompt, as one token
PromptText == <<"<bug bounty persona, JSON-only answer>">>
InputPrefix == <<"I", "n", "p", "u", "t", ":", " ">>

\* lines 362-375
sys_prompt(use_default_prompt, question) ==
    IF use_default_prompt THEN PromptText \o InputPrefix \o strip(question) ELSE None

\* lines 377-383
config(name, use_default_prompt, question) ==
    LET base == [tools |-> <<[file_search |-> [file_search_store_names |-> <<name>>]]>>]
    IN  IF use_default_prompt
        THEN Put(base, "system_instruction", sys_prompt(use_default_prompt, question))
        ELSE base

Models == {"gemini-2.5-flash", "gemini-2.5-pro"}

Buttons ==
    {"none", "create", "refresh_stores", "delete_store", "refresh_docs",
     "delete_docs", "upload", "ask"}

\* ---- the script, block by block
Init ==
    /\ session = <<>>
    /\ pc = "idle"
    /\ clicked = "none"
    /\ active_name = ""
    /\ selected_store = Unbound
    /\ store_name = None
    /\ selected_doc_names = <<>>
    /\ del_results = <<>>
    /\ ask_in = Unbound
    /\ calls = <<>>
    /\ lastDocList = Unbound
    /\ ParkedDrain
    /\ ParkedUpload

PassFrame == UNCHANGED <<drainVars, uploadVars>>

\* The operator touches a widget: the script reruns from the top.
BeginPass ==
    /\ pc = "idle"
    /\ \E b \in Buttons : clicked' = b
    /\ pc' = "apikey"
    /\ active_name' = ""
    /\ selected_store' = Unbound
    /\ store_name' = None
    /\ selected_doc_names' = <<>>
    /\ del_results' = <<>>
    /\ ask_in' = Unbound
    /\ calls' = <<>>
    /\ UNCHANGED <<session, lastDocList>>
    /\ PassFrame

\* lines 135-139: st.stop() when the key is blank
ApiKeyCheck ==
    /\ pc = "apikey"
    /\ \E api_key_input \in {<<>>, <<" ">>, <<"q">>} :
          pc' = IF strip(api_key_input) = <<>> THEN "end" ELSE "create"
    /\ UNCHANGED <<session, clicked, active_name, selected_store, store_name,
                   selected_doc_names, del_results, ask_in, calls, lastDocList>>
    /\ PassFrame

\* lines 144-151
CreateStoreBlock ==
    /\ pc = "create"
    /\ IF clicked = "create"
          THEN \E created_ok \in BOOLEAN, resp \in StoreListResponses :
                 LET create == Call("stores.create", None, created_ok, None)
                     listed == list_stores(resp)
                 IN  IF created_ok
                     THEN /\ session' = Put(session, "stores_list", listed.items)
                          /\ calls' = calls \o <<create,
                                 Call("stores.list", None, ~listed.error, listed.items)>>
                     ELSE /\ session' = session
                          /\ calls' = Append(calls, create)
          ELSE UNCHANGED <<session, calls>>
    /\ pc' = "refresh"
    /\ UNCHANGED <<clicked, active_name, selected_store, store_name,
                   selected_doc_names, del_results, ask_in, lastDocList>>
    /\ PassFrame

\* lines 155-156
RefreshStoresBlock ==
    /\ pc = "refresh"
    /\ IF clicked = "refresh_stores"
          THEN \E resp \in StoreListResponses :
                 LET listed == list_stores(resp)
                 IN  /\ session' = Put(session, "stores_list", listed.items)
                     /\ calls' = Append(calls,
                                   Call("stores.list", None, ~listed.error, listed.items))
          ELSE UNCHANGED <<session, calls>>
    /\ pc' = "select"
    /\ UNCHANGED <<clicked, active_name, selected_store, store_name,
                   selected_doc_names, del_results, ask_in, lastDocList>>
    /\ PassFrame

\* lines 158-180 (and 200-201 when no store is listed): the radio yields one
\* of the listed stores, which is activated when it is not the active one
SelectStoreBlock ==
    /\ pc = "select"
    /\ LET stores_list == Get(session, "stores_list", <<>>)
           active == Get(session, "file_search_store_name", "")
       IN  IF stores_list = <<>>
           THEN /\ pc' = "storename"
                /\ UNCHANGED <<session, active_name, selected_store, calls, lastDocList>>
           ELSE /\ pc' = "delete"
                /\ active_name' = active
                /\ \E i \in DOMAIN stores_list :
                     LET sel == stores_list[i]
                         sel_name == sel.name
                     IN  /\ selected_store' = Bound(sel)
                         /\ IF ShouldActivate(sel_name, active)
                            THEN \E resp \in DocListResponses(ActivationParent(sel_name, active)) :
                                   LET parent == ActivationParent(sel_name, active)
                                       listed == list_store_documents(resp)
                                   IN  /\ session' =
                                            Put(Put(Put(ensure_store_in_state(session, sel),
                                                "file_search_store_display_name", sel.display_name),
                                                "store_documents", listed.items),
                                                "_store_docs_for", sel_name)
                                       /\ calls' = Append(calls,
                                            Call("documents.list", parent, ~listed.error, listed.items))
                                       /\ lastDocList' =
                                            Bound([parent |-> parent, items |-> listed.items])
                            ELSE UNCHANGED <<session, calls, lastDocList>>
    /\ UNCHANGED <<clicked, store_name, selected_doc_names, del_results, ask_in>>
    /\ PassFrame

\* lines 183-199
DeleteStoreBlock ==
    /\ pc = "delete"
    /\ IF clicked = "delete_store" /\ selected_store # Unbound
          THEN LET store_to_delete_name == ValueOf(selected_store).name
               IN  IF store_to_delete_name = ""
                   THEN UNCHANGED <<session, calls>>
                   ELSE \E deleted \in BOOLEAN, resp \in StoreListResponses :
                          LET delete == Call("stores.delete", store_to_delete_name, deleted, None)
                              listed == list_stores(resp)
                              popped ==
                                  IF deleted /\ Get(session, "file_search_store_name", None)
                                                  = store_to_delete_name
                                  THEN Pop(session, ClearedKeys)
                                  ELSE session
                          IN  IF RefreshAfterDelete(deleted)
                              THEN /\ session' = Put(popped, "stores_list", listed.items)
                                   /\ calls' = calls \o <<delete,
                                          Call("stores.list", None, ~listed.error, listed.items)>>
                              ELSE /\ session' = popped
                                   /\ calls' = Append(calls, delete)
          ELSE UNCHANGED <<session, calls>>
    /\ pc' = "storename"
    /\ UNCHANGED <<clicked, active_name, selected_store, store_name,
                   selected_doc_names, del_results, ask_in, lastDocList>>
    /\ PassFrame

\* lines 203-212 and 350-351: both tabs only show a hint without a store
ReadStoreName ==
    /\ pc = "storename"
    /\ store_name' = Get(session, "file_search_store_name", None)
    /\ pc' = IF store_name' = None THEN "end" ELSE "autoload"
    /\ UNCHANGED <<session, clicked, active_name, selected_store,
                   selected_doc_names, del_results, ask_in, calls, lastDocList>>
    /\ PassFrame

\* lines 220-222
AutoLoadBlock ==
    /\ pc = "autoload"
    /\ IF "store_documents" \notin DOMAIN session
          \/ Get(session, "_store_docs_for", None) # store_name
          THEN \E resp \in DocListResponses(store_name) :
                 LET listed == list_store_documents(resp)
                 IN  /\ session' = Put(Put(session, "store_documents", listed.items),
                                       "_store_docs_for", store_name)
                     /\ calls' = Append(calls,
                          Call("documents.list", store_name, ~listed.error, listed.items))
                     /\ lastDocList' = Bound([parent |-> store_name, items |-> listed.items])
          ELSE UNCHANGED <<session, calls, lastDocList>>
    /\ pc' = "refreshdocs"
    /\ UNCHANGED <<clicked, active_name, selected_store, store_name,
                   selected_doc_names, del_results, ask_in>>
    /\ PassFrame

\* lines 226-227
RefreshDocsBlock ==
    /\ pc = "refreshdocs"
    /\ IF clicked = "refresh_docs"
          THEN \E resp \in DocListResponses(store_name) :
                 LET listed == list_store_documents(resp)
                 IN  /\ session' = Put(session, "store_documents", listed.items)
                     /\ calls' = Append(calls,
                          Call("documents.list", store_name, ~listed.error, listed.items))
                     /\ lastDocList' = Bound([parent |-> store_name, items |-> listed.items])
          ELSE UNCHANGED <<session, calls, lastDocList>>
    /\ pc' = "deletedocs"
    /\ UNCHANGED <<clicked, active_name, selected_store, store_name,
                   selected_doc_names, del_results, ask_in>>
    /\ PassFrame

\* lines 228-286: the table of the cached documents and the batch delete;
\* the selection matters only when Delete was pressed, so it is drawn only then
DeleteDocsBlock ==
    /\ pc = "deletedocs"
    /\ LET docs == Get(session, "store_documents", <<>>)
           keys == options_keys(docs)
       IN  IF docs # <<>> /\ clicked = "delete_docs"
           THEN \E chosen \in DistinctSeqs(Range(keys), Len(keys)) :
                  /\ selected_doc_names' = chosen
                  /\ IF chosen # <<>>
                     THEN \E outcomes \in [1..Len(chosen) -> BOOLEAN],
                             resp \in DocListResponses(store_name) :
                            LET loop == DeleteLoop(chosen, outcomes,
                                                   [calls |-> <<>>, results |-> <<>>])
                                listed == list_store_documents(resp)
                            IN  /\ del_results' = loop.results
                                /\ session' = Put(session, "store_documents", listed.items)
                                /\ calls' = calls \o loop.calls \o
                                     <<Call("documents.list", store_name,
                                            ~listed.error, listed.items)>>
                                /\ lastDocList' =
                                     Bound([parent |-> store_name, items |-> listed.items])
                     ELSE UNCHANGED <<session, del_results, calls, lastDocList>>
           ELSE UNCHANGED <<session, selected_doc_names, del_results, calls, lastDocList>>
    /\ pc' = "upload"
    /\ UNCHANGED <<clicked, active_name, selected_store, store_name, ask_in>>
    /\ PassFrame

\* lines 290-344 as the render pass sees them, for at most one file; the
\* steps of the loop are those of SpecUpload.  The loop writes no session
\* key; an upload whose temporary file cannot be written for the first file
\* ends the script with NameError.
UploadBlock ==
    /\ pc = "upload"
    /\ IF clicked = "upload"
          THEN \E outcome \in {"no files", "success", "error", "NameError"} :
                 /\ calls' = IF outcome \in {"success", "error"}
                             THEN Append(calls, Call("upload_to_file_search_store",
                                                     store_name, outcome = "success", None))
                             ELSE calls
                 /\ pc' = IF outcome = "NameError" THEN "end" ELSE "ask"
          ELSE /\ calls' = calls
               /\ pc' = "ask"
    /\ UNCHANGED <<session, clicked, active_name, selected_store, store_name,
                   selected_doc_names, del_results, ask_in, lastDocList>>
    /\ PassFrame

\* lines 353-409; the widget values matter only when Ask was pressed
\* ("if ask and ..." / "elif ask"), so they are drawn only then
AskBlock ==
    /\ pc = "ask"
    /\ IF clicked = "ask"
          THEN \E question \in Questions, use_default_prompt \in BOOLEAN :
                 /\ ask_in' = Bound([question |-> question,
                                     use_default_prompt |-> use_default_prompt])
                 /\ IF ShouldAsk(clicked = "ask", question)
                    THEN \E answered \in BOOLEAN, model_name \in Models :
                           calls' = Append(calls,
                               Call("generate_content",
                                    [model |-> model_name, contents |-> strip(question),
                                     config |-> config(store_name, use_default_prompt, question)],
                                    answered, None))
                    ELSE calls' = calls
          ELSE UNCHANGED <<ask_in, calls>>
    /\ pc' = "end"
    /\ UNCHANGED <<session, clicked, active_name, selected_store, store_name,
                   selected_doc_names, del_results, lastDocList>>
    /\ PassFrame

\* The script has run to its end (or stopped); the page waits for the operator.
EndPass ==
    /\ pc = "end"
    /\ pc' = "idle"
    /\ clicked' = "none"
    /\ active_name' = ""
    /\ selected_store' = Unbound
    /\ store_name' = None
    /\ selected_doc_names' = <<>>
    /\ del_results' = <<>>
    /\ ask_in' = Unbound
    /\ calls' = <<>>
    /\ UNCHANGED <<session, lastDocList>>
    /\ PassFrame

Next ==
    \/ BeginPass \/ ApiKeyCheck
    \/ CreateStoreBlock \/ RefreshStoresBlock \/ SelectStoreBlock \/ DeleteStoreBlock
    \/ ReadStoreName \/ AutoLoadBlock \/ RefreshDocsBlock \/ DeleteDocsBlock
    \/ UploadBlock \/ AskBlock \/ EndPass

Spec == Init /\ [][Next]_vars

\* ---- what the statements about the render pass read
ActiveAndCacheKeys ==
    {"file_search_store", "file_search_store_name", "store_documents", "_store_docs_for"}

\* The keys K are present in both or in neither, with equal values.
SameOn(ss1, ss2, K) ==
    \A k \in K : /\ (k \in DOMAIN ss1) <=> (k \in DOMAIN ss2)
                 /\ (k \in DOMAIN ss1) => ss1[k] = ss2[k]

ActiveStoreName(ss) == Get(ss, "file_search_store_name", None)

Last(q) == q[Len(q)]
NewCalls(before, after) == SubSeq(after, Len(before) + 1, Len(after))

IsStoreDelete(c) == c.op = "stores.delete"
IsStoreList(c) == c.op = "stores.list"
IsDocDelete(c) == c.op = "documents.delete"
IsDocList(c) == c.op = "documents.list"
IsGenerate(c) == c.op = "generate_content"

\* ---------------------------------------------------------------- C5
\* C5: when the activation step runs with a selected store, a selection
\* whose non-empty identifier differs from the active store's makes it the
\* active store and issues exactly one document listing, for that store,
\* whose result becomes the cache, tagged with the identifier; a selection
\* of the store that is already active changes neither the active store nor
\* the cache nor its tag, and issues no remote call.
C5_Activation ==
    [][ (pc = "select" /\ pc' = "delete") =>
          LET sel == ValueOf(selected_store')
              active == Get(session, "file_search_store_name", "")
          IN  /\ (sel.name # "" /\ sel.name # active) =>
                    /\ ActiveAndCacheKeys \subseteq DOMAIN session'
                    /\ session'["file_search_store_name"] = sel.name
                    /\ session'["file_search_store"] = sel
                    /\ session'["_store_docs_for"] = sel.name
                    /\ Len(calls') = Len(calls) + 1
                    /\ IsDocList(Last(calls'))
                    /\ Last(calls').arg = sel.name
                    /\ session'["store_documents"] = Last(calls').result
              /\ (sel.name # "" /\ sel.name = active) =>
                    /\ SameOn(session, session', ActiveAndCacheKeys)
                    /\ calls' = calls
      ]_vars

\* The operator switched from s1 to s2: s2 is active and its listing is cached.
C5_Witness ==
    /\ pc = "delete"
    /\ active_name = "s1"
    /\ ValueOf(selected_store).name = "s2"
    /\ ActiveStoreName(session) = "s2"
    /\ session["_store_docs_for"] = "s2"
    /\ calls # <<>> /\ IsDocList(Last(calls)) /\ Last(calls).arg = "s2"
    /\ session["store_documents"] # <<>>

\* ---------------------------------------------------------------- C6
\* C6: from the point where the documents are shown to the end of the
\* render pass (and while the page is idle), whenever a store is active the
\* session holds a document cache tagged with the active store's
\* identifier, and the cache is what the latest remote document listing
\* returned, that listing having been issued for the active store.
C6_CacheMatchesActive ==
    (pc \in {"refreshdocs", "deletedocs", "upload", "ask", "end", "idle"}
       /\ ActiveStoreName(session) # None) =>
        /\ "store_documents" \in DOMAIN session
        /\ "_store_docs_for" \in DOMAIN session
        /\ session["_store_docs_for"] = ActiveStoreName(session)
        /\ lastDocList # Unbound
        /\ ValueOf(lastDocList).parent = ActiveStoreName(session)
        /\ session["store_documents"] = ValueOf(lastDocList).items
        /\ \A i \in DOMAIN session["store_documents"] :
              session["store_documents"][i].store = ActiveStoreName(session)

\* A pass that began with s1 active ends with s2 active and documents of s2 cached.
C6_Witness ==
    /\ pc = "end"
    /\ active_name = "s1"
    /\ ActiveStoreName(session) = "s2"
    /\ session["store_documents"] # <<>>

\* ---------------------------------------------------------------- C7
\* C7: a delete-active-store click on a store without identifier makes no
\* remote delete call and leaves the active store and the document cache
\* as they are; with an identifier exactly one remote delete is called for
\* it; when it raises, the active store, the cache and its tag stay as they
\* are; when it succeeds and the store is the active one, the four keys are
\* gone, and the rest of the pass runs without an active store.
C7_DeleteStore ==
    /\ [][ (pc = "delete" /\ clicked = "delete_store") =>
             LET id == ValueOf(selected_store).name
                 dels == SelectSeq(NewCalls(calls, calls'), IsStoreDelete)
             IN  /\ id = "" => /\ dels = <<>>
                               /\ SameOn(session, session', ActiveAndCacheKeys)
                 /\ id # "" =>
                       /\ Len(dels) = 1
                       /\ dels[1].arg = id
                       /\ ~dels[1].ok => SameOn(session, session', ActiveAndCacheKeys)
                       /\ (dels[1].ok /\ ActiveStoreName(session) = id) =>
                             \A k \in ActiveAndCacheKeys : k \notin DOMAIN session'
         ]_vars
    /\ []( (\E i \in DOMAIN calls : IsStoreDelete(calls[i]) /\ calls[i].ok) =>
             /\ pc \in {"storename", "end"}
             /\ store_name = None
             /\ ActiveStoreName(session) = None )

\* The active store s1, which had a cache, was deleted remotely and cleared.
C7_Witness ==
    /\ pc = "storename"
    /\ clicked = "delete_store"
    /\ active_name = "s1"
    /\ \E i \in DOMAIN calls : IsStoreDelete(calls[i]) /\ calls[i].ok /\ calls[i].arg = "s1"
    /\ \A k \in ActiveAndCacheKeys : k \notin DOMAIN session

\* ---------------------------------------------------------------- C8
\* The store list was re-fetched by this step and the result is the cache.
StoresRefetched ==
    /\ Len(SelectSeq(NewCalls(calls, calls'), IsStoreList)) = 1
    /\ IsStoreList(Last(calls'))
    /\ "stores_list" \in DOMAIN session'
    /\ session'["stores_list"] = Last(calls').result

\* C8 as claimed: every delete-active-store click, whatever its outcome, is
\* followed by a remote re-fetch of the store list that replaces the cache.
C8_AlwaysRefetched ==
    [][ (pc = "delete" /\ clicked = "delete_store") => StoresRefetched ]_vars

\* C8 as amended: a delete-active-store click on a store with an identifier
\* is followed by one remote re-fetch of the store list that replaces the
\* cache, whether the remote delete succeeded or raised; a click on a store
\* without identifier (the local validation error) issues no remote call
\* and leaves the session as it is.
C8_RefetchedUnlessInvalid ==
    [][ (pc = "delete" /\ clicked = "delete_store") =>
          IF ValueOf(selected_store).name # ""
          THEN StoresRefetched
          ELSE calls' = calls /\ session' = session
      ]_vars

\* The remote delete raised and the store list was fetched again after it.
C8_Witness ==
    /\ pc = "storename"
    /\ clicked = "delete_store"
    /\ Len(calls) >= 2
    /\ IsStoreDelete(calls[Len(calls) - 1]) /\ ~calls[Len(calls) - 1].ok
    /\ IsStoreList(Last(calls))
    /\ session["stores_list"] = Last(calls).result

\* ---------------------------------------------------------------- C9
\* C9: after a batch delete of N selected identifiers the pass has issued
\* exactly N document deletes, forced, one per identifier in input order,
\* whatever each returned; the results hold N records in the same order,
\* the i-th "deleted" when the i-th delete succeeded and an error when it
\* raised; the one call after the last delete is a single listing of the
\* active store's documents, whose result is the cache.
C9_BatchDelete ==
    (pc \in {"upload", "ask", "end"} /\ clicked = "delete_docs" /\ selected_doc_names # <<>>) =>
        LET N == Len(selected_doc_names)
            L == Len(calls)
        IN  /\ Len(del_results) = N
            /\ L >= N + 1
            /\ Len(SelectSeq(calls, IsDocDelete)) = N
            /\ \A i \in 1..N :
                  LET c == calls[L - N - 1 + i]
                  IN  /\ IsDocDelete(c)
                      /\ c.arg = [name |-> selected_doc_names[i], force |-> TRUE]
                      /\ del_results[i].document = selected_doc_names[i]
                      /\ c.ok => del_results[i].status = <<"deleted">>
                      /\ ~c.ok => del_results[i].status[1] = "error"
            /\ IsDocList(calls[L])
            /\ calls[L].arg = store_name
            /\ session["store_documents"] = calls[L].result

\* Two documents were selected, the first delete raised, the second was
\* still made and succeeded, and the cache was listed once afterwards.
C9_Witness ==
    /\ pc = "upload"
    /\ clicked = "delete_docs"
    /\ Len(selected_doc_names) = 2
    /\ Len(calls) = 3
    /\ IsDocDelete(calls[1]) /\ ~calls[1].ok
    /\ IsDocDelete(calls[2]) /\ calls[2].ok
    /\ IsDocList(calls[3])
    /\ del_results[1].status[1] = "error"
    /\ del_results[2].status = <<"deleted">>

\* ---------------------------------------------------------------- C10
\* t is q without its leading and trailing blanks.
IsTrimOf(t, q) ==
    \E a, b \in 0..Len(q) :
        /\ a + b <= Len(q)
        /\ t = SubSeq(q, a + 1, Len(q) - b)
        /\ \A i \in 1..a : q[i] = " "
        /\ \A i \in (Len(q) - b + 1)..Len(q) : q[i] = " "
        /\ t = <<>> \/ (t[1] # " " /\ t[Len(t)] # " ")

EndsWith(str, suffix) ==
    /\ Len(suffix) <= Len(str)
    /\ SubSeq(str, Len(str) - Len(suffix) + 1, Len(str)) = suffix

\* C10: a pass in which Ask was pressed issues no chat-completion call when
\* the question is blank and exactly one otherwise, whether that call
\* returns or raises; the call's tool scope names the active store and
\* nothing else; its configuration has a system instruction exactly when
\* use_default_prompt is set, and that text ends with "Input: " followed by
\* the question without its leading and trailing blanks.
C10_AskOnce ==
    (pc = "end" /\ ask_in # Unbound) =>
        LET q == ValueOf(ask_in).question
            udp == ValueOf(ask_in).use_default_prompt
            gens == SelectSeq(calls, IsGenerate)
        IN  /\ Len(gens) <= 1
            /\ (Len(gens) = 0) <=> (\A i \in DOMAIN q : q[i] = " ")
            /\ Len(gens) = 1 =>
                  LET cfg == gens[1].arg.config
                  IN  /\ cfg["tools"] =
                            <<[file_search |->
                                 [file_search_store_names |-> <<ActiveStoreName(session)>>]]>>
                      /\ ActiveStoreName(session) # None
                      /\ ("system_instruction" \in DOMAIN cfg) <=> udp
                      /\ DOMAIN cfg \subseteq {"tools", "system_instruction"}
                      /\ udp => \E t \in Questions :
                                  /\ IsTrimOf(t, q)
                                  /\ EndsWith(cfg["system_instruction"],
                                              <<"I", "n", "p", "u", "t", ":", " ">> \o t)

\* The question " q " was asked with the default prompt against s1 and the
\* one call made raised.
C10_Witness ==
    /\ pc = "end"
    /\ ask_in # Unbound
    /\ ValueOf(ask_in).question = <<" ", "q", " ">>
    /\ ValueOf(ask_in).use_default_prompt
    /\ Len(SelectSeq(calls, IsGenerate)) = 1
    /\ ~Last(calls).ok
    /\ IsGenerate(Last(calls))
    /\ EndsWith(Last(calls).arg.config["system_instruction"],
                <<"I", "n", "p", "u", "t", ":", " ", "q">>)

\* ---------------------------------------------------------------- C4
\* The items of pages 1..k, in page order, computed from the page sizes
\* alone: the stubs number their items 1, 2, 3, ... across the pages.
FirstPages(resp, k) ==
    LET n == SumTo([p \in DOMAIN resp.pages |-> Len(resp.pages[p])], k)
    IN  [j \in 1..n |-> j]

\* C4: draining a paginated cursor (an object with page, has_next_page and
\* next_page) with list_stores or list_store_documents never lets an error
\* out; when nothing raises, the result is the items of all pages in page
\* order; when the k-th advance (or the has_next_page check before it)
\* raises, the result is exactly the items of the first k pages, each once
\* and in order.
C4_DrainConcatOrPrefix ==
    (d_kind # "none" /\ d_resp.shape = "pager" /\ d_resp.has_hnp) =>
        /\ d_out.raised = FALSE
        /\ d_out.error = FALSE
        /\ IF d_resp.failOp = "none" \/ d_resp.failAt >= Len(d_resp.pages)
              THEN d_out.items = FirstPages(d_resp, Len(d_resp.pages))
              ELSE d_out.items = FirstPages(d_resp, d_resp.failAt)

\* A cursor of three non-empty pages whose second advance raised has been
\* drained to its first two pages.
C4_Witness ==
    /\ d_kind = "documents"
    /\ d_resp.shape = "pager" /\ d_resp.has_hnp
    /\ Len(d_resp.pages) = 3
    /\ \A p \in 1..3 : Len(d_resp.pages[p]) > 0
    /\ d_resp.failOp = "next_page" /\ d_resp.failAt = 2
    /\ d_out.items = d_resp.pages[1] \o d_resp.pages[2]

=============================================================================
